---------------------------- MODULE Spec2Model ----------------------------
(***************************************************************************)
(* Model of src/Form_app.py: the quiz-text parser parse_questions and the  *)
(* batch-request builder create_google_form.                               *)
(*                                                                         *)
(* Text is modelled character by character: a Python str is a sequence of  *)
(* one-character strings, so that strip, split, upper, startswith, the     *)
(* regular expressions and int() are computed as the code computes them.   *)
(***************************************************************************)
EXTENDS Integers, Sequences, FiniteSets, TLC

(***************************************************************************)
(* Characters.  CM stands for the single code point U+2705 (the check-mark *)
(* glyph of lines 87, 94, 141, 143).                                       *)
(***************************************************************************)
NL == "\n"
CM == "CHECKMARK"
Whitespace == {" ", "\t", NL, "\r"}
Digits == {"0", "1", "2", "3", "4", "5", "6", "7", "8", "9"}
DigitVal == ("0" :> 0) @@ ("1" :> 1) @@ ("2" :> 2) @@ ("3" :> 3) @@ ("4" :> 4)
            @@ ("5" :> 5) @@ ("6" :> 6) @@ ("7" :> 7) @@ ("8" :> 8) @@ ("9" :> 9)
UpperMap == ("a" :> "A") @@ ("b" :> "B") @@ ("c" :> "C") @@ ("d" :> "D")
            @@ ("e" :> "E") @@ ("f" :> "F") @@ ("g" :> "G") @@ ("h" :> "H")
            @@ ("i" :> "I") @@ ("j" :> "J") @@ ("k" :> "K") @@ ("l" :> "L")
            @@ ("m" :> "M") @@ ("n" :> "N") @@ ("o" :> "O") @@ ("p" :> "P")
            @@ ("q" :> "Q") @@ ("r" :> "R") @@ ("s" :> "S") @@ ("t" :> "T")
            @@ ("u" :> "U") @@ ("v" :> "V") @@ ("w" :> "W") @@ ("x" :> "X")
            @@ ("y" :> "Y") @@ ("z" :> "Z")

(***************************************************************************)
(* Python str methods.                                                     *)
(***************************************************************************)
\* str.upper()
Upper(s) == [k \in 1..Len(s) |-> IF s[k] \in DOMAIN UpperMap THEN UpperMap[s[k]] ELSE s[k]]

\* s[k:] for a 1-based k
From(s, k) == SubSeq(s, k, Len(s))

\* str.startswith(p)
StartsWith(s, p) == Len(p) <= Len(s) /\ SubSeq(s, 1, Len(p)) = p

\* p in s
Contains(s, p) == \E k \in 1..(Len(s) - Len(p) + 1) : SubSeq(s, k, k + Len(p) - 1) = p

\* str.lstrip(): the index of the first character that is not in cs
RECURSIVE FirstNotIn(_, _, _)
FirstNotIn(s, cs, k) ==
    IF k > Len(s) \/ s[k] \notin cs THEN k ELSE FirstNotIn(s, cs, k + 1)

RECURSIVE LastNotIn(_, _, _)
LastNotIn(s, cs, k) ==
    IF k < 1 \/ s[k] \notin cs THEN k ELSE LastNotIn(s, cs, k - 1)

\* str.lstrip(chars)
LStripChars(s, cs) == From(s, FirstNotIn(s, cs, 1))

\* str.strip()
Strip(s) == SubSeq(s, FirstNotIn(s, Whitespace, 1), LastNotIn(s, Whitespace, Len(s)))

\* the index of the first occurrence of character c at or after k, 0 if none
RECURSIVE IndexOf(_, _, _)
IndexOf(s, c, k) ==
    IF k > Len(s) THEN 0 ELSE IF s[k] = c THEN k ELSE IndexOf(s, c, k + 1)

\* str.split(c) for a one-character separator: never empty
RECURSIVE Split(_, _)
Split(s, c) ==
    LET k == IndexOf(s, c, 1)
    IN  IF k = 0 THEN <<s>> ELSE <<SubSeq(s, 1, k - 1)>> \o Split(From(s, k + 1), c)

\* sep.join(parts)
RECURSIVE Join(_, _)
Join(parts, sep) ==
    IF Len(parts) = 0 THEN <<>>
    ELSE IF Len(parts) = 1 THEN parts[1]
    ELSE parts[1] \o sep \o Join(Tail(parts), sep)

\* s.split(c)[-1]
LastField(s, c) == LET f == Split(s, c) IN f[Len(f)]

\* int(s): optional surrounding whitespace, an optional sign, decimal digits,
\* single underscores between digits; anything else raises ValueError
IsDigitRun(d) ==
    /\ Len(d) > 0
    /\ d[1] \in Digits /\ d[Len(d)] \in Digits
    /\ \A k \in 1..Len(d) : d[k] \in Digits \cup {"_"}
    /\ \A k \in 1..(Len(d) - 1) : ~(d[k] = "_" /\ d[k + 1] = "_")

RECURSIVE DigitsValue(_, _)
DigitsValue(d, acc) ==
    IF Len(d) = 0 THEN acc
    ELSE IF d[1] = "_" THEN DigitsValue(Tail(d), acc)
    ELSE DigitsValue(Tail(d), 10 * acc + DigitVal[d[1]])

IntParse(s) ==
    LET t == Strip(s)
        signed == Len(t) > 0 /\ t[1] \in {"+", "-"}
        d == IF signed THEN Tail(t) ELSE t
    IN  IF IsDigitRun(d)
        THEN [ok |-> TRUE, val |-> IF signed /\ t[1] = "-" THEN 0 - DigitsValue(d, 0) ELSE DigitsValue(d, 0)]
        ELSE [ok |-> FALSE, val |-> 0]


(***************************************************************************)
(* String literals of the source, as character sequences.                  *)
(***************************************************************************)
None == <<"None">>   \* Python None: no character sequence equals it
CORRECT_ANSWER == <<"C", "O", "R", "R", "E", "C", "T", " ", "A", "N", "S", "W", "E", "R">>
TYPE_COLON == <<"T", "Y", "P", "E", ":">>
POINTS_COLON == <<"P", "O", "I", "N", "T", "S", ":">>
MCQ == <<"M", "C", "Q">>
CHECKBOX == <<"C", "H", "E", "C", "K", "B", "O", "X">>
DROPDOWN == <<"D", "R", "O", "P", "D", "O", "W", "N">>
SHORT == <<"S", "H", "O", "R", "T">>
LONG == <<"L", "O", "N", "G">>
DATE == <<"D", "A", "T", "E">>
TIME == <<"T", "I", "M", "E">>
RADIO == <<"R", "A", "D", "I", "O">>
DROP_DOWN == <<"D", "R", "O", "P", "_", "D", "O", "W", "N">>
CodeTokens == { <<"=">>, <<":">>, <<"d", "e", "f">>, <<"{">>, <<"}">>,
                <<"r", "e", "t", "u", "r", "n">>, <<"p", "r", "i", "n", "t">>,
                <<"i", "m", "p", "o", "r", "t">> }
Letters == {"A", "B", "C", "D"}

(***************************************************************************)
(* The regular expressions of parse_questions.                             *)
(***************************************************************************)
\* \n(?=\d+\.\s) matches at k: s[k] is a newline followed by digits, a dot
\* and one whitespace character
IsBlockStart(s, k) ==
    /\ s[k] = NL
    /\ LET j == FirstNotIn(s, Digits, k + 1)
       IN  /\ j > k + 1
           /\ j + 1 <= Len(s)
           /\ s[j] = "."
           /\ s[j + 1] \in Whitespace

RECURSIVE NextBlockStart(_, _)
NextBlockStart(s, k) ==
    IF k > Len(s) THEN 0
    ELSE IF IsBlockStart(s, k) THEN k ELSE NextBlockStart(s, k + 1)

\* re.split(r'\n(?=\d+\.\s)', s)
RECURSIVE SplitBlocks(_)
SplitBlocks(s) ==
    LET k == NextBlockStart(s, 1)
    IN  IF k = 0 THEN <<s>> ELSE <<SubSeq(s, 1, k - 1)>> \o SplitBlocks(From(s, k + 1))

\* re.sub(r"^\d+\.\s*", "", s)
StripNumber(s) ==
    LET j == FirstNotIn(s, Digits, 1)
    IN  IF j > 1 /\ j <= Len(s) /\ s[j] = "."
        THEN From(s, FirstNotIn(s, Whitespace, j + 1))
        ELSE s

\* re.match(r"^([*]?\s*U+2705?\s*)?[A-D]\)", line)
IsLetteredLine(line) ==
    LET a == IF Len(line) >= 1 /\ line[1] = "*" THEN 2 ELSE 1
        c == FirstNotIn(line, Whitespace, a)
        d == IF c <= Len(line) /\ line[c] = CM THEN c + 1 ELSE c
        e == FirstNotIn(line, Whitespace, d)
    IN  e + 1 <= Len(line) /\ line[e] \in Letters /\ line[e + 1] = ")"

\* re.match(r"^([A-D])\)\s*(.*)", line)
IsLetteredOption(line) == Len(line) >= 2 /\ line[1] \in Letters /\ line[2] = ")"

(***************************************************************************)
(* The first loop of a block: which line stops the collection of the       *)
(* code/description lines, and why.                                        *)
(***************************************************************************)
IsAnswerLine(line) == Contains(Upper(line), CORRECT_ANSWER)
IsTypeLine(line) == Contains(Upper(line), TYPE_COLON)
IsPointsLine(line) == Contains(Upper(line), POINTS_COLON)

Trigger(line) ==
    IF IsLetteredLine(line) THEN "lettered"
    ELSE IF StartsWith(line, <<"*">>) THEN "star"
    ELSE IF StartsWith(line, <<CM>>) THEN "check"
    ELSE IF IsAnswerLine(line) THEN "answer"
    ELSE IF IsTypeLine(line) \/ IsPointsLine(line) THEN "directive"
    ELSE "none"

RECURSIVE CodeStop(_, _)
CodeStop(ls, k) ==
    IF k > Len(ls) \/ Trigger(Strip(ls[k])) # "none" THEN k ELSE CodeStop(ls, k + 1)

IsCodeLike(code_block) == \E x \in CodeTokens : Contains(code_block, x)

(***************************************************************************)
(* The CORRECT ANSWER directive: for letter in letters: for opt in options *)
(***************************************************************************)
AnswerLetters(raw_line) == Split(Strip(LastField(raw_line, ":")), ",")

\* LetterMatches, were a token also to name an option by its whole text
LetterMatches_ByText(letter, opts) ==
    SelectSeq(opts, LAMBDA opt : \/ StartsWith(opt, Upper(Strip(letter)) \o <<")">>)
                                 \/ Upper(opt) = Upper(Strip(letter)))

LetterMatches(letter, opts) ==
    SelectSeq(opts, LAMBDA opt : StartsWith(opt, Upper(Strip(letter)) \o <<")">>))

\* AnswerMatches with the two loops exchanged: for opt in options: for letter in letters
RECURSIVE AnswerMatches_ByOption(_, _)
AnswerMatches_ByOption(letters, opts) ==
    IF Len(opts) = 0 THEN <<>>
    ELSE LET hits == SelectSeq(letters, LAMBDA l :
                         StartsWith(opts[1], Upper(Strip(l)) \o <<")">>))
         IN  [k \in 1..Len(hits) |-> opts[1]] \o AnswerMatches_ByOption(letters, Tail(opts))

RECURSIVE AnswerMatches(_, _)
AnswerMatches(letters, opts) ==
    IF Len(letters) = 0 THEN <<>>
    ELSE LetterMatches(letters[1], opts) \o AnswerMatches(Tail(letters), opts)

(***************************************************************************)
(* An option line.                                                         *)
(***************************************************************************)
Unstarred(raw_line) == Strip(LStripChars(raw_line, {"*"}))
IsMarked(raw_line) == StartsWith(Unstarred(raw_line), <<CM>>)
Unmarked(raw_line) ==
    IF IsMarked(raw_line) THEN Strip(Tail(Unstarred(raw_line))) ELSE Unstarred(raw_line)
FullOption(line) == <<line[1], ")", " ">> \o Strip(From(line, 3))

\* the option an option line stores, <<>> when it stores none
OptionOf(raw_line) ==
    LET line == Unmarked(raw_line)
    IN  IF IsLetteredOption(line) THEN FullOption(line) ELSE line

(***************************************************************************)
(* Type inference and the fallback to a short answer.                      *)
(***************************************************************************)
InferType(qt, opts, correct) ==
    IF qt = None \/ qt = <<>>
    THEN IF Len(opts) > 0 THEN (IF Len(correct) > 1 THEN CHECKBOX ELSE MCQ) ELSE SHORT
    ELSE qt

\* IsFallback without the test of correct_answers
IsFallback_IgnoringAnswers(hascode, opts, correct, lettered) ==
    ~hascode /\ Len(opts) > 0 /\ ~lettered

IsFallback(hascode, opts, correct, lettered) ==
    ~hascode /\ Len(opts) > 0 /\ Len(correct) = 0 /\ ~lettered

\* Bullets without the "- " in front of each option
Bullets_Unmarked(opts) == Join(opts, <<NL>>)

Bullets(opts) == Join([k \in 1..Len(opts) |-> <<"-", " ">> \o opts[k]], <<NL>>)

QuestionData(qtext, qt, opts, correct, pts, desc, hascode, lettered) ==
    LET fb == IsFallback(hascode, opts, correct, lettered)
    IN  [ question |-> qtext,
          type |-> IF fb THEN SHORT ELSE InferType(qt, opts, correct),
          options |-> IF fb THEN <<>> ELSE opts,
          correct_answers |-> correct,
          points |-> pts,
          description |-> Strip(IF fb THEN Bullets(opts) ELSE desc) ]

(***************************************************************************)
(* The input texts: every sequence of at most MaxLines entries of          *)
(* Catalogue, joined by newlines.  An entry is a line, or two lines.       *)
(***************************************************************************)
MaxLines == 3

Catalogue ==
    { <<"1", ".", " ", "Q">>,                                  \* 1. Q
      <<"2", ".", " ", "R">>,                                  \* 2. R
      <<"A", ")", " ", "x">>,                                  \* A) x
      <<CM, " ", "B", ")", " ", "y", NL, "A", ")", " ", "x">>, \* U+2705 B) y, then A) x
      <<CM, " ", "G", "o">>,                                   \* U+2705 Go
      <<"*", " ", "R", "e", "d">>,                             \* * Red
      <<"-", " ", "B", "l", "u", "e">>,                        \* - Blue
      <<"C", "o", "r", "r", "e", "c", "t", " ", "A", "n", "s", "w", "e", "r", ":",
        " ", "a", ",", " ", "R", "e", "d", ",", "b">>,         \* Correct Answer: a, Red,b
      <<"T", "Y", "P", "E", ":", " ", "d", "r", "o", "p", "d", "o", "w", "n">>,
      <<"T", "Y", "P", "E", ":", " ", "e", "s", "s", "a", "y">>,
      <<"t", "y", "p", "e", ":", " ", "l", "o", "n", "g">>,    \* type: long
      <<"P", "O", "I", "N", "T", "S", ":", " ", "-", "3">>,    \* POINTS: -3
      <<"P", "O", "I", "N", "T", "S", ":", " ", "5">>,         \* POINTS: 5
      <<NL, "P", "O", "I", "N", "T", "S", ":", " ", "x">>,     \* a blank line, then POINTS: x
      <<"x", " ", "=", " ", "1">>,                             \* x = 1
      <<>> }                                                   \* a blank line

Texts == { Join(ls, <<NL>>) : ls \in UNION { [1..n -> Catalogue] : n \in 0..MaxLines } }

VARIABLES
    pc,                    \* where the program is
    text,                  \* parse_questions: the parameter
    blocks, b,             \* the blocks and the index of the current one
    lines, i,              \* the lines of the block and the (1-based) cursor
    question_text, description, has_code,
    options, correct_answers, qtype, points,
    has_lettered_option, has_any_options,
    questions,             \* the records parsed so far; then parsed_questions
    quiz_mode, shuffle, form_id,
    requests, n,           \* the batch and the number of questions compiled
    form                   \* the remote form: [exists, isQuiz, items]

block_vars == <<lines, i, question_text, description, has_code, options,
                correct_answers, qtype, points, has_lettered_option, has_any_options>>
parse_vars == <<text, blocks, b, block_vars, questions>>
form_vars == <<quiz_mode, shuffle, form_id, requests, n, form>>
vars == <<pc, parse_vars, form_vars>>

NoForm == [exists |-> FALSE, isQuiz |-> FALSE, items |-> <<>>]

Init ==
    /\ pc = "parse"
    /\ text \in Texts
    /\ blocks = <<>> /\ b = 0
    /\ lines = <<>> /\ i = 0
    /\ question_text = <<>> /\ description = <<>> /\ has_code = FALSE
    /\ options = <<>> /\ correct_answers = <<>> /\ qtype = None /\ points = 0
    /\ has_lettered_option = FALSE /\ has_any_options = FALSE
    /\ questions = <<>>
    /\ quiz_mode = FALSE /\ shuffle = FALSE /\ form_id = None
    /\ requests = <<>> /\ n = 0
    /\ form = NoForm

(***************************************************************************)
(* parse_questions                                                         *)
(***************************************************************************)
\* lines 64-65
Segment ==
    /\ pc = "parse"
    /\ blocks' = SplitBlocks(Strip(text))
    /\ b' = 1
    /\ questions' = <<>>
    /\ pc' = "block"
    /\ UNCHANGED <<text, block_vars, form_vars>>

\* lines 67-107: the head of the loop body and the first loop
BlockLines(block) == Split(Strip(block), NL)

BeginBlock ==
    /\ pc = "block"
    /\ b <= Len(blocks)
    /\ LET ls == BlockLines(blocks[b])
           stop == CodeStop(ls, 2)
           trig == IF stop <= Len(ls) THEN Trigger(Strip(ls[stop])) ELSE "none"
           code_block == Join(SubSeq(ls, 2, stop - 1), <<NL>>)
           hc == Len(Strip(code_block)) > 0 /\ IsCodeLike(code_block)
       IN  IF Len(ls) = 0
           THEN /\ b' = b + 1
                /\ pc' = "block"
                /\ UNCHANGED block_vars
           ELSE /\ lines' = ls
                /\ question_text' = StripNumber(Strip(ls[1]))
                /\ options' = <<>>
                /\ correct_answers' = <<>>
                /\ qtype' = None
                /\ points' = 0
                /\ has_lettered_option' = (trig = "lettered")
                /\ has_any_options' = (trig \in {"lettered", "star", "check"})
                /\ i' = stop
                /\ has_code' = hc
                /\ description' = IF hc THEN code_block ELSE <<>>
                /\ pc' = "options"
                /\ UNCHANGED b
    /\ UNCHANGED <<text, blocks, questions, form_vars>>

raw_line == Strip(lines[i])
InOptions == pc = "options" /\ i <= Len(lines)

\* lines 112-114
SkipBlank ==
    /\ InOptions
    /\ raw_line = <<>>
    /\ i' = i + 1
    /\ UNCHANGED <<pc, text, blocks, b, lines, question_text, description, has_code,
                   options, correct_answers, qtype, points, has_lettered_option,
                   has_any_options, questions, form_vars>>

\* lines 116-123
CorrectAnswerLine ==
    /\ InOptions
    /\ raw_line # <<>>
    /\ IsAnswerLine(raw_line)
    /\ correct_answers' = correct_answers \o AnswerMatches(AnswerLetters(raw_line), options)
    /\ i' = i + 1
    /\ UNCHANGED <<pc, text, blocks, b, lines, question_text, description, has_code,
                   options, qtype, points, has_lettered_option, has_any_options,
                   questions, form_vars>>

\* lines 125-128
TypeLine ==
    /\ InOptions
    /\ raw_line # <<>>
    /\ ~IsAnswerLine(raw_line)
    /\ IsTypeLine(raw_line)
    /\ qtype' = Upper(Strip(LastField(raw_line, ":")))
    /\ i' = i + 1
    /\ UNCHANGED <<pc, text, blocks, b, lines, question_text, description, has_code,
                   options, correct_answers, points, has_lettered_option,
                   has_any_options, questions, form_vars>>

\* lines 130-136
PointsLine ==
    /\ InOptions
    /\ raw_line # <<>>
    /\ ~IsAnswerLine(raw_line)
    /\ ~IsTypeLine(raw_line)
    /\ IsPointsLine(raw_line)
    /\ LET r == IntParse(LastField(raw_line, ":"))
       IN  points' = IF r.ok THEN r.val ELSE 0
    /\ i' = i + 1
    /\ UNCHANGED <<pc, text, blocks, b, lines, question_text, description, has_code,
                   options, correct_answers, qtype, has_lettered_option,
                   has_any_options, questions, form_vars>>

\* lines 138-161
OptionLine ==
    /\ InOptions
    /\ raw_line # <<>>
    /\ ~IsAnswerLine(raw_line)
    /\ ~IsTypeLine(raw_line)
    /\ ~IsPointsLine(raw_line)
    /\ LET opt == OptionOf(raw_line)
           lettered == IsLetteredOption(Unmarked(raw_line))
           stored == lettered \/ opt # <<>>
       IN  /\ options' = IF stored THEN Append(options, opt) ELSE options
           /\ correct_answers' = IF stored /\ IsMarked(raw_line)
                                 THEN Append(correct_answers, opt)
                                 ELSE correct_answers
           /\ has_lettered_option' = (has_lettered_option \/ lettered)
           /\ has_any_options' = (has_any_options \/ stored)
    /\ i' = i + 1
    /\ UNCHANGED <<pc, text, blocks, b, lines, question_text, description, has_code,
                   qtype, points, questions, form_vars>>

\* lines 163-189
EndBlock ==
    /\ pc = "options"
    /\ i > Len(lines)
    /\ questions' = Append(questions,
           QuestionData(question_text, qtype, options, correct_answers, points,
                        description, has_code, has_lettered_option))
    /\ b' = b + 1
    /\ pc' = "block"
    /\ UNCHANGED <<text, blocks, block_vars, form_vars>>

\* line 191
Return ==
    /\ pc = "block"
    /\ b > Len(blocks)
    /\ pc' = "parsed"
    /\ UNCHANGED <<parse_vars, form_vars>>

(***************************************************************************)
(* main: the preview of the parsed questions, which writes their points    *)
(* (lines 444-453).  The number input takes values MinPoints..MaxPoints;   *)
(* PointInputs are the values a user types here.                           *)
(***************************************************************************)
MinPoints == 0
MaxPoints == 100
PointInputs == {MinPoints, 2, MaxPoints}

ClearParse ==
    /\ text' = <<>> /\ blocks' = <<>> /\ b' = 0
    /\ lines' = <<>> /\ i' = 0
    /\ question_text' = <<>> /\ description' = <<>> /\ has_code' = FALSE
    /\ options' = <<>> /\ correct_answers' = <<>> /\ qtype' = None /\ points' = 0
    /\ has_lettered_option' = FALSE /\ has_any_options' = FALSE

WithPoints(qs, pts) == [j \in 1..Len(qs) |-> [qs[j] EXCEPT !.points = pts[j]]]

\* lines 413, 420-453 with quiz mode off: every question's points are set to 0
PreviewPlain ==
    /\ pc = "parsed"
    /\ Len(questions) > 0
    /\ quiz_mode' = FALSE
    /\ questions' = WithPoints(questions, [j \in 1..Len(questions) |-> 0])
    /\ pc' = "previewed"
    /\ ClearParse
    /\ UNCHANGED <<shuffle, form_id, requests, n, form>>

\* lines 413, 420-453 with quiz mode on: the number inputs show the parsed
\* points, and the user retypes the points of question j or of none
PreviewQuiz ==
    /\ pc = "parsed"
    /\ Len(questions) > 0
    /\ \A j \in 1..Len(questions) : questions[j].points \in MinPoints..MaxPoints
    /\ quiz_mode' = TRUE
    /\ \E j \in 0..Len(questions), v \in PointInputs :
           questions' = WithPoints(questions,
               [m \in 1..Len(questions) |-> IF m = j THEN v ELSE questions[m].points])
    /\ pc' = "previewed"
    /\ ClearParse
    /\ UNCHANGED <<shuffle, form_id, requests, n, form>>

(***************************************************************************)
(* create_google_form                                                      *)
(***************************************************************************)
NoQuestion == [kind |-> "none", type |-> <<>>, options |-> <<>>,
               shuffle |-> FALSE, paragraph |-> FALSE]
NoItem == [title |-> <<>>, description |-> <<>>, question |-> NoQuestion]
NoGrading == [answers |-> <<>>, pointValue |-> 0, set |-> FALSE]

ChoiceTypes == {MCQ, CHECKBOX, DROPDOWN}

\* lines 247-251
qtype_map(t) == IF t = MCQ THEN RADIO ELSE IF t = CHECKBOX THEN CHECKBOX ELSE DROP_DOWN

\* str.replace(c, d) for one-character c and d
ReplaceChar(s, c, d) == [j \in 1..Len(s) |-> IF s[j] = c THEN d ELSE s[j]]

\* lines 246-264
QuestionBody(q, shuf) ==
    IF q.type \in ChoiceTypes
    THEN [kind |-> "choiceQuestion", type |-> qtype_map(q.type), options |-> q.options,
          shuffle |-> shuf, paragraph |-> FALSE]
    ELSE IF q.type = SHORT THEN [NoQuestion EXCEPT !.kind = "textQuestion"]
    ELSE IF q.type = LONG THEN [NoQuestion EXCEPT !.kind = "textQuestion", !.paragraph = TRUE]
    ELSE IF q.type = DATE THEN [NoQuestion EXCEPT !.kind = "dateQuestion"]
    ELSE IF q.type = TIME THEN [NoQuestion EXCEPT !.kind = "timeQuestion"]
    ELSE NoQuestion

\* lines 225-264
ItemOf(q, shuf) ==
    LET k == IndexOf(q.question, NL, 1)
        title == IF k > 0 THEN Strip(SubSeq(q.question, 1, k - 1)) ELSE Strip(q.question)
        desc == IF k > 0 THEN From(q.question, k + 1) ELSE q.description
    IN  [title |-> ReplaceChar(title, NL, " "), description |-> desc,
         question |-> QuestionBody(q, shuf)]

\* the questions in the order given, not reversed
Reversed_Forward(qs) == qs

\* line 223: parsed_questions[::-1]
Reversed(qs) == [j \in 1..Len(qs) |-> qs[Len(qs) + 1 - j]]

\* line 275
NeedsGrading(q, quiz) ==
    quiz /\ Len(q.correct_answers) > 0 /\ q.type \in {MCQ, CHECKBOX}

\* line 277
PointValue(q) == IF q.points # 0 THEN q.points ELSE 1

UpdateSettings == [kind |-> "updateSettings", index |-> 0, item |-> NoItem, grading |-> NoGrading]
CreateItem(q, shuf) ==
    [kind |-> "createItem", index |-> 0, item |-> ItemOf(q, shuf), grading |-> NoGrading]
UpdateItem(q) ==
    [kind |-> "updateItem", index |-> 0, item |-> NoItem,
     grading |-> [answers |-> q.correct_answers, pointValue |-> PointValue(q), set |-> TRUE]]

\* the items of a form that exists before the call (form_id given)
ExistingItem(name) == [item |-> [NoItem EXCEPT !.title = name], grading |-> NoGrading]
ExistingItems == << ExistingItem(<<"e", "1">>), ExistingItem(<<"e", "2">>) >>

\* lines 196-221; the caller passes the quiz mode of the preview (line 460)
CreateForm ==
    /\ pc \in {"parsed", "previewed"}
    /\ \E quiz \in BOOLEAN, shuf \in BOOLEAN, fid \in {None, <<"F">>} :
           /\ pc = "previewed" => quiz = quiz_mode
           /\ quiz_mode' = quiz
           /\ shuffle' = shuf
           /\ IF fid = None
              THEN /\ form_id' = <<"N", "E", "W">>
                   /\ form' = [exists |-> TRUE, isQuiz |-> FALSE, items |-> <<>>]
              ELSE /\ form_id' = fid
                   /\ form' = [exists |-> TRUE, isQuiz |-> FALSE, items |-> ExistingItems]
           /\ requests' = IF quiz THEN <<UpdateSettings>> ELSE <<>>
    /\ n' = 0
    /\ pc' = "compile"
    /\ IF pc = "parsed" THEN ClearParse /\ UNCHANGED questions ELSE UNCHANGED parse_vars

\* lines 223-296: one iteration of the loop
CompileQuestion ==
    /\ pc = "compile"
    /\ n < Len(questions)
    /\ LET q == Reversed(questions)[n + 1]
       IN  requests' = requests \o <<CreateItem(q, shuffle)>>
                       \o (IF NeedsGrading(q, quiz_mode) THEN <<UpdateItem(q)>> ELSE <<>>)
    /\ n' = n + 1
    /\ UNCHANGED <<pc, parse_vars, quiz_mode, shuffle, form_id, form>>

\* the forms service applying one request of a batch
ApplyRequest(f, r) ==
    IF r.kind = "updateSettings" THEN [f EXCEPT !.isQuiz = TRUE]
    ELSE IF r.kind = "createItem"
    THEN [f EXCEPT !.items = SubSeq(f.items, 1, r.index)
                             \o <<[item |-> r.item, grading |-> NoGrading]>>
                             \o From(f.items, r.index + 1)]
    ELSE [f EXCEPT !.items[r.index + 1].grading = r.grading]

RECURSIVE ApplyBatch(_, _)
ApplyBatch(f, rs) ==
    IF Len(rs) = 0 THEN f ELSE ApplyBatch(ApplyRequest(f, rs[1]), Tail(rs))

\* lines 298-299
BatchUpdate ==
    /\ pc = "compile"
    /\ n = Len(questions)
    /\ form' = ApplyBatch(form, requests)
    /\ pc' = "done"
    /\ UNCHANGED <<parse_vars, quiz_mode, shuffle, form_id, requests, n>>

Next ==
    \/ Segment
    \/ BeginBlock
    \/ SkipBlank
    \/ CorrectAnswerLine
    \/ TypeLine
    \/ PointsLine
    \/ OptionLine
    \/ EndBlock
    \/ Return
    \/ PreviewPlain
    \/ PreviewQuiz
    \/ CreateForm
    \/ CompileQuestion
    \/ BatchUpdate

Spec == Init /\ [][Next]_vars

(***************************************************************************)
(* Vocabulary of the properties.                                           *)
(***************************************************************************)
Range(f) == {f[j] : j \in DOMAIN f}
Kinds == {MCQ, CHECKBOX, DROPDOWN, SHORT, LONG, DATE, TIME}

Compiling == pc \in {"compile", "done"}

\* the positions of the createItem requests in the batch, in order
InsertPositions ==
    SelectSeq([p \in 1..Len(requests) |-> p], LAMBDA p : requests[p].kind = "createItem")
\* the record the k-th createItem request is for: the k-th from the end
InsertedRecord(k) == questions[Len(questions) + 1 - k]
\* an updateItem request follows the k-th createItem request immediately
GradedAfter(k) ==
    LET p == InsertPositions[k]
    IN  p < Len(requests) /\ requests[p + 1].kind = "updateItem"

\* the items of the form before the batch is applied
ItemsBefore == IF form_id = <<"F">> THEN ExistingItems ELSE <<>>

\* a record has just been appended for the block whose lines are in `lines`
JustEmitted == pc \in {"block", "parsed"} /\ Len(questions) > 0
LastRecord == questions[Len(questions)]

(***************************************************************************)
(* C1: the batch holds one createItem per record compiled so far, each at  *)
(* index 0, the k-th for the k-th record from the end; once the batch is   *)
(* applied the form holds the records' items in authored order, followed   *)
(* by the items it held before.                                            *)
(***************************************************************************)
C1_ReverseInsertion ==
    Compiling =>
        /\ Len(InsertPositions) = n
        /\ \A k \in 1..n :
               /\ requests[InsertPositions[k]].index = 0
               /\ requests[InsertPositions[k]].item = ItemOf(InsertedRecord(k), shuffle)
        /\ pc = "done" =>
               /\ n = Len(questions)
               /\ [j \in 1..Len(form.items) |-> form.items[j].item]
                    = [j \in 1..Len(questions) |-> ItemOf(questions[j], shuffle)]
                      \o [j \in 1..Len(ItemsBefore) |-> ItemsBefore[j].item]

C1_Witness ==
    /\ pc = "done"
    /\ Len(questions) = 3
    /\ ItemOf(questions[1], shuffle) # ItemOf(questions[3], shuffle)
    /\ Len(ItemsBefore) = 2
    /\ Len(form.items) = 5

(***************************************************************************)
(* C2 (as claimed): an updateItem (grading) request follows the createItem *)
(* of a record immediately if and only if quiz mode is on, the record's    *)
(* type is MCQ, CHECKBOX or DROPDOWN and it has a correct answer; and no   *)
(* updateItem request stands anywhere else.                                *)
(***************************************************************************)
C2_GradingIffChoiceKind ==
    Compiling =>
        /\ \A k \in 1..Len(InsertPositions) :
               GradedAfter(k) <=>
                   /\ quiz_mode
                   /\ InsertedRecord(k).type \in {MCQ, CHECKBOX, DROPDOWN}
                   /\ InsertedRecord(k).correct_answers # <<>>
        /\ \A p \in 1..Len(requests) :
               requests[p].kind = "updateItem" => p > 1 /\ requests[p - 1].kind = "createItem"

(***************************************************************************)
(* C3 (as claimed): the pointValue of a record's grading request is the    *)
(* record's points when they are positive and 1 otherwise, so at least 1.  *)
(***************************************************************************)
C3_PointValuePositive ==
    Compiling =>
        \A k \in 1..Len(InsertPositions) :
            GradedAfter(k) =>
                LET v == requests[InsertPositions[k] + 1].grading.pointValue
                    pts == InsertedRecord(k).points
                IN  v = (IF pts > 0 THEN pts ELSE 1) /\ v >= 1

(***************************************************************************)
(* C4 (as claimed): parse returns one record per numbered block of the     *)
(* text (a line that begins with an integer, a dot and whitespace begins a *)
(* block); empty or whitespace-only text yields no record.                 *)
(***************************************************************************)
IsNumberedLine(l) ==
    LET j == FirstNotIn(l, Digits, 1)
    IN  j > 1 /\ j + 1 <= Len(l) /\ l[j] = "." /\ l[j + 1] \in Whitespace

NumberedBlocks(t) ==
    Cardinality({k \in 1..Len(Split(t, NL)) : IsNumberedLine(Split(t, NL)[k])})

\* C4 (as claimed): as many records as numbered blocks, none for blank text
C4_OneRecordPerNumberedBlock ==
    pc = "parsed" =>
        /\ Len(questions) = NumberedBlocks(text)
        /\ Strip(text) = <<>> => questions = <<>>

(***************************************************************************)
(* C5: in every record parse has produced, each correct answer is equal to *)
(* one of the record's options.                                            *)
(***************************************************************************)
C5_CorrectWithinOptions ==
    \A j \in 1..Len(questions) :
        Range(questions[j].correct_answers) \subseteq Range(questions[j].options)

\* a block whose answers were marked both in line and by the directive
C5_Witness ==
    /\ JustEmitted
    /\ \E j \in 2..Len(lines) : IsMarked(Strip(lines[j]))
    /\ \E j \in 2..Len(lines) : IsAnswerLine(Strip(lines[j]))
    /\ Len(LastRecord.correct_answers) >= 3
    /\ Len(lines) = 4

(***************************************************************************)
(* C6 (as claimed): every record parse returns has one of the seven types, *)
(* and every createItem request carries a question body.                   *)
(***************************************************************************)
C6_KindIsOneOfSeven ==
    /\ pc = "parsed" => \A j \in 1..Len(questions) : questions[j].type \in Kinds
    /\ \A p \in 1..Len(requests) :
           requests[p].kind = "createItem" => requests[p].item.question.kind # "none"

(***************************************************************************)
(* C7 (as claimed): a record parse returns with type SHORT, LONG, DATE or  *)
(* TIME has no options, also when a TYPE: directive set the type.          *)
(***************************************************************************)
C7_OptionsOnlyForChoiceKinds ==
    pc = "parsed" =>
        \A j \in 1..Len(questions) :
            questions[j].type \in {SHORT, LONG, DATE, TIME} => questions[j].options = <<>>

(***************************************************************************)
(* C8: the fallback to a short answer.  A bullet line is a line that       *)
(* begins with one of the given marks and carries a bare text: no letter,  *)
(* no check mark, no directive.                                            *)
(***************************************************************************)
BulletText(l, marks) == Strip(LStripChars(Strip(l), marks))

IsBulletLine(l, marks) ==
    LET r == Strip(l)
        t == BulletText(l, marks)
    IN  /\ Len(r) > 0 /\ r[1] \in marks
        /\ t # <<>>
        /\ t[1] # CM
        /\ ~IsLetteredOption(t)
        /\ ~IsAnswerLine(r) /\ ~IsTypeLine(r) /\ ~IsPointsLine(r)

\* the block is a title followed by bullet lines only
OnlyBullets(marks) ==
    /\ JustEmitted
    /\ Len(lines) >= 2
    /\ \A j \in 2..Len(lines) : IsBulletLine(lines[j], marks)

\* the record is a short answer whose description lists every bullet
Demoted(marks, last) ==
    /\ LastRecord.type = SHORT
    /\ LastRecord.options = <<>>
    /\ LastRecord.description
         = Join([j \in 1..(last - 1) |-> <<"-", " ">> \o BulletText(lines[j + 1], marks)], <<NL>>)

\* C8 (as claimed): for bullet lines that begin with an asterisk or a hyphen
C8_HyphenBulletsDemoted ==
    OnlyBullets({"*", "-"}) => Demoted({"*", "-"}, Len(lines))

\* C8 (amended): for bullet lines that begin with an asterisk
C8_StarBulletsDemoted ==
    OnlyBullets({"*"}) => Demoted({"*"}, Len(lines))

C8_Witness ==
    /\ OnlyBullets({"*"})
    /\ Len(lines) = 3
    /\ LastRecord.description # <<>>

(***************************************************************************)
(* C9: a title, asterisk bullet lines, then a CORRECT ANSWER directive     *)
(* that names a bullet by its text.                                        *)
(***************************************************************************)
BulletsThenAnswer ==
    /\ JustEmitted
    /\ Len(lines) >= 3
    /\ \A j \in 2..(Len(lines) - 1) : IsBulletLine(lines[j], {"*"})
    /\ IsAnswerLine(Strip(lines[Len(lines)]))

AnswerTokens == Split(LastField(Strip(lines[Len(lines)]), ":"), ",")
BulletTexts == [j \in 1..(Len(lines) - 2) |-> BulletText(lines[j + 1], {"*"})]
NamedByText == {t \in Range(BulletTexts) : \E k \in 1..Len(AnswerTokens) : Strip(AnswerTokens[k]) = t}

\* C9 (as claimed): the options are the bullet texts, every named one is
\* correct, and the type is CHECKBOX when two or more are named
C9_NamedByTextMarked ==
    BulletsThenAnswer /\ NamedByText # {} =>
        /\ LastRecord.options = BulletTexts
        /\ NamedByText \subseteq Range(LastRecord.correct_answers)
        /\ Cardinality(NamedByText) >= 2 => LastRecord.type = CHECKBOX

\* C9 (amended): the directive marks only options that begin with an
\* upper-cased token and a closing parenthesis; bullets without a
\* parenthesis that are named by their text are not marked, and the record
\* falls back to a short answer that lists them
C9_NamedByTextNotMarked ==
    BulletsThenAnswer /\ NamedByText # {} =>
        /\ \A c \in Range(LastRecord.correct_answers) :
               \E k \in 1..Len(AnswerTokens) :
                   StartsWith(c, Upper(Strip(AnswerTokens[k])) \o <<")">>)
        /\ (\A t \in Range(BulletTexts) : IndexOf(t, ")", 1) = 0) =>
               /\ LastRecord.correct_answers = <<>>
               /\ Demoted({"*"}, Len(lines) - 1)

C9_Witness ==
    /\ BulletsThenAnswer
    /\ NamedByText # {}
    /\ Len(lines) = 3
    /\ LastRecord.type = SHORT

(***************************************************************************)
(* C10: a step over a CORRECT ANSWER line appends to correct_answers, for  *)
(* each token in turn, exactly the options collected so far that begin     *)
(* with the upper-cased, trimmed token and a closing parenthesis, and      *)
(* leaves options, points and qtype as they were.                          *)
(***************************************************************************)
OverAnswerLine ==
    /\ pc = "options" /\ pc' = "options"
    /\ i <= Len(lines) /\ i' = i + 1
    /\ IsAnswerLine(Strip(lines[i]))

TokenOf(k) == Upper(Strip(Split(LastField(Strip(lines[i]), ":"), ",")[k]))
TokenCount == Len(Split(LastField(Strip(lines[i]), ":"), ","))
Names(k, opt) == StartsWith(opt, TokenOf(k) \o <<")">>)
NamedCount ==
    Cardinality({<<k, j>> \in (1..TokenCount) \X (1..Len(options)) : Names(k, options[j])})

\* C10, of one step
C10_AnswerStep ==
    OverAnswerLine =>
        /\ options' = options /\ points' = points /\ qtype' = qtype
        /\ Len(correct_answers') = Len(correct_answers) + NamedCount
        /\ SubSeq(correct_answers', 1, Len(correct_answers)) = correct_answers
        /\ \E tok \in [(Len(correct_answers) + 1)..Len(correct_answers') -> 1..TokenCount] :
               /\ \A p \in DOMAIN tok :
                      /\ correct_answers'[p] \in Range(options)
                      /\ Names(tok[p], correct_answers'[p])
               /\ \A p, q \in DOMAIN tok : p < q => tok[p] <= tok[q]

\* C10: every step over a CORRECT ANSWER line is such a step
C10_AnswerDirective == [][C10_AnswerStep]_vars

\* the directive has acted on a block with two options collected before it:
\* it named both, in the order of its tokens and not of the options
C10_Witness ==
    /\ pc = "options"
    /\ i = 5 /\ i > Len(lines)
    /\ IsAnswerLine(Strip(lines[4]))
    /\ Len(options) = 2
    /\ Len(correct_answers) = 3
    /\ correct_answers[2] = options[2]
    /\ correct_answers[3] = options[1]

=============================================================================
